---- MODULE Spec2Model ----
(***************************************************************************)
(* A model of the xiv crate: the EXD row iterator, read_exd and the row     *)
(* binder (ex.rs), PackId (packid.rs), the index2 loader (index2.rs), the   *)
(* SqPack resolver (sqpack.rs) and the inner-file readers (dat.rs).  Each   *)
(* part has its own specification over its own variables; the variables of *)
(* the other parts stay at their idle values.                               *)
(***************************************************************************)
EXTENDS Integers, Sequences, FiniteSets, TLC

VARIABLES
    \* the row iterator read_exd returns
    exh,        \* the parsed EXH: variant, data_offset, row_count
    pages,      \* per EXH page: start_id and the row-pointer table of its EXD file
    fault,      \* the one place (if any) where the EXD data cannot be read or decoded
    iter,       \* FlatMap: index of the next page the outer iterator hands out
    frontiter,  \* FlatMap: the ExdPageReader being drained (NoReader when none)
    item,       \* what the last next() returned
    prev,       \* what the next() before it returned
    yielded,    \* the rows yielded so far, in order
    post,       \* how many times next() returned the terminator
    loads,      \* per page: reads of its EXD file, parses of its pointer table
    \* PackId
    pidIn,      \* the PackId or inner path an operation is applied to
    pidOut,     \* the operation applied and what it returned
    \* read_exd
    rxIn,       \* base_path, locale, the EXH's languages and pages
    rxOut,      \* the effective locale, the paths looked up, the result
    \* Index2
    ixFile,     \* the (hash, location) records of an index2 file
    ixIndex,    \* the loaded Index2 (<<>> before load)
    ixFound,    \* the path looked up and what find returned
    \* SqPack
    fs,         \* the files under the base directory
    opened,     \* whether SqPack::open has run
    indexes,    \* the HashMap<PackId, OnceCell<Arc<Index2>>>
    th,         \* per thread: where it is inside find, and what it got
    published,  \* every Arc<Index2> a successful Index2::load produced
    \* inner files of a dat file
    datIn,      \* the inner file: where it is, its chunks and their blocks
    datOut,     \* the read applied, its result and the stream position after it
    \* the row binder
    rowIn,      \* the row: id, sub-id, the EXH columns, its data byte
    rowOut,     \* the binding applied and the cells or error it gave
    \* the sub-row seek
    subIn,      \* data_offset, sub-row index, row offset, the build's overflow mode
    subOut      \* the positions of the sub-id and of the cell base, or a panic

exdVars == <<exh, pages, fault, iter, frontiter, item, prev, yielded, post, loads>>
pidVars == <<pidIn, pidOut>>
rxVars == <<rxIn, rxOut>>
ixVars == <<ixFile, ixIndex, ixFound>>
sqVars == <<fs, opened, indexes, th, published>>
datVars == <<datIn, datOut>>
rowVars == <<rowIn, rowOut>>
subVars == <<subIn, subOut>>

vars == <<exdVars, pidVars, rxVars, ixVars, sqVars, datVars, rowVars, subVars>>

-----------------------------------------------------------------------------
(* Bounds *)

MaxPages == 2
MaxRows == 2
MaxSub == 2
MaxPost == 2
MaxLoads == 2

-----------------------------------------------------------------------------
(* EXH / EXD data *)

Variants == {"Normal", "SubRows"}

\* Exh.data_offset values of the sheets considered
Strides == {4}

ExdHeaderSize == 32
RowHeaderSize == 6

NoSub == -1

\* All sequences over S of length 0..n
SeqsUpTo(S, n) == UNION {[1..k -> S] : k \in 0..n}

RECURSIVE SumLens(_)
SumLens(ss) == IF ss = <<>> THEN 0 ELSE Len(Head(ss)) + SumLens(Tail(ss))

\* A sheet's shape: per page, the subrow_count field of each row header
Shapes ==
    {sh \in SeqsUpTo(SeqsUpTo(0..MaxSub, MaxRows), MaxPages) : SumLens(sh) <= MaxRows}

\* Bytes one row occupies after its 6-byte header
RowBody(v, stride, cnt) ==
    IF v = "Normal" THEN stride ELSE cnt * (2 + stride)

RECURSIVE RowPtrs(_, _, _, _, _)
RowPtrs(v, stride, counts, id, off) ==
    IF counts = <<>> THEN <<>>
    ELSE <<[id |-> id, offset |-> off, subrow_count |-> Head(counts)]>>
         \o RowPtrs(v, stride, Tail(counts), id + 1,
                    off + RowHeaderSize + RowBody(v, stride, Head(counts)))

RECURSIVE MkPages(_, _, _, _)
MkPages(v, stride, shape, id) ==
    IF shape = <<>> THEN <<>>
    ELSE <<[start_id |-> id,
            rows |-> RowPtrs(v, stride, Head(shape), id,
                             ExdHeaderSize + 8 * Len(Head(shape)))]>>
         \o MkPages(v, stride, Tail(shape), id + Len(Head(shape)))

NoFault == [kind |-> "none", page |-> 0, row |-> 0, sub |-> 0]

\* The places where reading a sheet of this shape can fail
Faults(v, shape) ==
    {NoFault}
    \cup {[kind |-> k, page |-> p, row |-> 0, sub |-> 0] :
            k \in {"read", "header"}, p \in 1..Len(shape)}
    \cup UNION {{[kind |-> "rowhdr", page |-> p, row |-> r, sub |-> 0] :
                    r \in 1..Len(shape[p])} : p \in 1..Len(shape)}
    \cup UNION {UNION {{[kind |-> k, page |-> p, row |-> r, sub |-> s] :
                          k \in (IF v = "SubRows" THEN {"subhdr", "deser"} ELSE {"deser"}),
                          s \in (IF v = "SubRows" THEN 0..(shape[p][r] - 1) ELSE {0})} :
                    r \in 1..Len(shape[p])} : p \in 1..Len(shape)}

-----------------------------------------------------------------------------
(* Items of the iterator: Option<Result<T, XivError>> *)

NoneItem == [kind |-> "None", id |-> 0, subid |-> NoSub, base |-> 0, err |-> ""]
NotCalled == [kind |-> "NotCalled", id |-> 0, subid |-> NoSub, base |-> 0, err |-> ""]
ErrItem(e) == [kind |-> "Err", id |-> 0, subid |-> NoSub, base |-> 0, err |-> e]
RowItem(id, subid, base) ==
    [kind |-> "Row", id |-> id, subid |-> subid, base |-> base, err |-> ""]

-----------------------------------------------------------------------------
(* ExdPageReader *)

NoReader ==
    [page |-> 0, exd_data |-> FALSE, exd_header |-> FALSE, row_index |-> 0,
     subrow_index |-> 0, subrow_count |-> 0, done |-> FALSE]

ExdPageReader_new(p) ==
    [page |-> p, exd_data |-> FALSE, exd_header |-> FALSE, row_index |-> 0,
     subrow_index |-> 0, subrow_count |-> 0, done |-> FALSE]

FaultAt(k, p, r, s) == fault = [kind |-> k, page |-> p, row |-> r, sub |-> s]

\* Result<_, XivError> of a step that may change the reader
Ret(rd, res) == [rd |-> rd, res |-> res]

lazy_exd_data(rd) ==
    IF rd.exd_data THEN Ret(rd, NoneItem)
    ELSE IF FaultAt("read", rd.page, 0, 0) THEN Ret(rd, ErrItem("IO"))
    ELSE Ret([rd EXCEPT !.exd_data = TRUE], NoneItem)

lazy_exd_header(rd) ==
    IF rd.exd_header THEN Ret(rd, NoneItem)
    ELSE LET d == lazy_exd_data(rd) IN
         IF d.res.kind = "Err" THEN d
         ELSE IF FaultAt("header", rd.page, 0, 0)
              THEN Ret(d.rd, ErrItem("ExdFileHeader"))
              ELSE Ret([d.rd EXCEPT !.exd_header = TRUE], NoneItem)

\* u16 arithmetic of the sub-row offset
SubrowOffset(v, data_offset, k) ==
    IF v = "Normal" THEN 0 ELSE ((2 + data_offset) * k) % 65536

\* The slot of the row body a read at sub-row index k touches
Slot(k) == IF exh.variant = "Normal" THEN 0 ELSE k

\* The sub-row index left where it was
SubrowIndexKept(k) == k

\* self.subrow_index += 1;
SubrowIndexAfter(k) == k + 1

read_next_subrow(rd) ==
    IF rd.done THEN Ret(rd, NoneItem)
    ELSE LET h == lazy_exd_header(rd) IN
    IF h.res.kind = "Err" THEN h
    ELSE IF h.rd.row_index + 1 > Len(pages[rd.page].rows) THEN Ret(h.rd, NoneItem)
    ELSE LET row_ptr == pages[rd.page].rows[h.rd.row_index + 1]
             k == h.rd.subrow_index
             pos == row_ptr.offset + RowHeaderSize
                    + SubrowOffset(exh.variant, exh.data_offset, k)
         IN
         IF k >= h.rd.subrow_count THEN Ret(h.rd, NoneItem)
         ELSE IF exh.variant = "SubRows"
                 /\ FaultAt("subhdr", rd.page, h.rd.row_index + 1, Slot(k))
              THEN Ret(h.rd, ErrItem("ExdSubRowHeader"))
         ELSE IF FaultAt("deser", rd.page, h.rd.row_index + 1, Slot(k))
              THEN Ret(h.rd, ErrItem("ExdDeserialization"))
         ELSE Ret([h.rd EXCEPT !.subrow_index = SubrowIndexAfter(k)],
                  IF exh.variant = "Normal"
                  THEN RowItem(row_ptr.id, NoSub, pos)
                  ELSE RowItem(row_ptr.id, k, pos + 2))

\* The row_index update that follows the sub-row read
RowFinished(rd) == rd.subrow_index >= rd.subrow_count

read_next_row(rd) ==
    IF rd.done THEN Ret(rd, NoneItem)
    ELSE LET h == lazy_exd_header(rd) IN
    IF h.res.kind = "Err" THEN h
    ELSE IF h.rd.row_index + 1 > Len(pages[rd.page].rows)
         THEN Ret([h.rd EXCEPT !.done = TRUE, !.exd_data = FALSE, !.exd_header = FALSE],
                  NoneItem)
    ELSE LET row_ptr == pages[rd.page].rows[h.rd.row_index + 1] IN
         IF FaultAt("rowhdr", rd.page, h.rd.row_index + 1, 0)
         THEN Ret(h.rd, ErrItem("ExdRowHeader"))
         ELSE LET rd1 == [h.rd EXCEPT !.subrow_count = row_ptr.subrow_count]
                  s == read_next_subrow(rd1)
              IN
              IF s.res.kind = "Err" THEN s
              ELSE IF RowFinished(s.rd)
                   THEN Ret([s.rd EXCEPT !.row_index = @ + 1, !.subrow_index = 0,
                                         !.subrow_count = 0], s.res)
                   ELSE s

\* u16::MAX as usize
U16_MAX == 65535

\* Iterator::size_hint of a page reader: (lower, upper), upper <<n>> for Some(n).
\* The subtraction is on usize: underflow tells that row_index exceeds row_count.
\* For the row counts considered the product fits usize, so checked_mul is Some.
size_hint(rd) ==
    LET remaining_rows == exh.row_count - rd.row_index IN
    [underflow |-> exh.row_count < rd.row_index,
     lo |-> remaining_rows,
     hi |-> IF exh.variant = "Normal" THEN <<remaining_rows>>
            ELSE <<remaining_rows * U16_MAX>>]

-----------------------------------------------------------------------------
(* read_exd's iterator: fileptrs.into_iter().flat_map(ExdPageReader::new) *)

\* The outer iterator's position once a page reader returned None
AdvancePage(it) == it + 1

RECURSIVE FlatNext(_, _)
FlatNext(it, front) ==
    IF front.page # 0
    THEN LET r == read_next_row(front) IN
         IF r.res.kind # "None"
         THEN [iter |-> it, frontiter |-> r.rd, res |-> r.res]
         ELSE FlatNext(it, NoReader)
    ELSE IF it <= Len(pages)
         THEN FlatNext(AdvancePage(it), ExdPageReader_new(it))
         ELSE [iter |-> it, frontiter |-> NoReader, res |-> NoneItem]

\* What has been loaded of a page: how often exd_fileptr.read_plain() was
\* called, how often ExdHeader::read ran, how many rows had been yielded when
\* the file was first read, and whether a reader holds its buffer or table
NoLoad == [reads |-> 0, parses |-> 0, at |-> 0, held |-> FALSE]

\* lazy_exd_data calls read_plain: no buffer is held (and none can be held
\* while the pointer table is, which is parsed from it)
ReadsFile(rd) == ~rd.done /\ ~rd.exd_header /\ ~rd.exd_data

\* lazy_exd_header calls ExdHeader::read: no table is held and the data came
ParsesHeader(rd) == ~rd.done /\ ~rd.exd_header /\ lazy_exd_data(rd).res.kind # "Err"

\* The loads one next() of a page reader adds
Logged(rd, lg, n) ==
    [lg EXCEPT ![rd.page] =
        [reads |-> IF ReadsFile(rd) THEN @.reads + 1 ELSE @.reads,
         parses |-> IF ParsesHeader(rd) THEN @.parses + 1 ELSE @.parses,
         at |-> IF ReadsFile(rd) /\ @.reads = 0 THEN n ELSE @.at,
         held |-> read_next_row(rd).rd.exd_data \/ read_next_row(rd).rd.exd_header]]

\* The FlatMap drops a reader that returned None, and with it what it holds
Dropped(rd, lg) == [lg EXCEPT ![rd.page].held = FALSE]

\* The loads one next() of the FlatMap adds: it asks the reader being drained
\* and, when that returns None, the readers of the following pages
RECURSIVE FlatLoads(_, _, _, _)
FlatLoads(it, front, lg, n) ==
    IF front.page # 0
    THEN IF read_next_row(front).res.kind # "None"
         THEN Logged(front, lg, n)
         ELSE FlatLoads(it, NoReader, Dropped(front, Logged(front, lg, n)), n)
    ELSE IF it <= Len(pages)
         THEN FlatLoads(AdvancePage(it), ExdPageReader_new(it), lg, n)
         ELSE lg

-----------------------------------------------------------------------------
(* PackId (packid.rs).  Paths and file names are sequences of characters. *)

\* Bytes a PackId field is drawn from
ByteSamples == {0, 9, 10, 15, 16, 159, 160, 255}

MaxSegs == 3

HexDigits == <<"0", "1", "2", "3", "4", "5", "6", "7", "8", "9", "a", "b", "c", "d", "e", "f">>
DecDigits == <<"0", "1", "2", "3", "4", "5", "6", "7", "8", "9">>

IsLowerHex(c) == \E d \in 1..16 : HexDigits[d] = c
HexVal(c) == (CHOOSE d \in 1..16 : HexDigits[d] = c) - 1
IsDigit(c) == \E d \in 1..10 : DecDigits[d] = c
DecVal(c) == (CHOOSE d \in 1..10 : DecDigits[d] = c) - 1

\* format!("{:x}") without the zero padding
FormatHexUnpadded(b) ==
    IF b < 16 THEN <<HexDigits[b + 1]>>
    ELSE <<HexDigits[(b \div 16) + 1], HexDigits[(b % 16) + 1]>>

\* format!("{:02x}", b) of a u8
FormatHex02(b) == <<HexDigits[(b \div 16) + 1], HexDigits[(b % 16) + 1]>>

\* format!("{}", n) of a u8
RECURSIVE FormatDec(_)
FormatDec(n) ==
    IF n < 10 THEN <<DecDigits[n + 1]>>
    ELSE FormatDec(n \div 10) \o <<DecDigits[(n % 10) + 1]>>

\* u8::from_str_radix(s, 16) of two hex digits
ParseHex2(s) == 16 * HexVal(s[1]) + HexVal(s[2])

CategoryNames ==
    <<<<"c", "o", "m", "m", "o", "n">>, <<"b", "g", "c", "o", "m", "m", "o", "n">>, <<"b", "g">>, <<"c", "u", "t">>, <<"c", "h", "a", "r", "a">>, <<"s", "h", "a", "d", "e", "r">>, <<"u", "i">>,
      <<"s", "o", "u", "n", "d">>, <<"v", "f", "x">>, <<"u", "i", "_", "s", "c", "r", "i", "p", "t">>, <<"e", "x", "d">>, <<"g", "a", "m", "e", "_", "s", "c", "r", "i", "p", "t">>, <<"m", "u", "s", "i", "c">>,
      <<"_", "s", "q", "p", "a", "c", "k", "_", "t", "e", "s", "t">>, <<"_", "d", "e", "b", "u", "g">>>>
CategoryIds == <<0, 1, 2, 3, 4, 5, 6, 7, 8, 9, 10, 11, 12, 18, 19>>

\* CATEGORY_NAME_TO_ID.get(name): <<>> when absent, <<id>> when present
CATEGORY_NAME_TO_ID(name) ==
    IF \E i \in 1..Len(CategoryNames) : CategoryNames[i] = name
    THEN <<CategoryIds[CHOOSE i \in 1..Len(CategoryNames) : CategoryNames[i] = name]>>
    ELSE <<>>

PackId_new(c, e, p) == [category |-> c, expansion |-> e, patch |-> p]

PackIdOk(q) == [ok |-> TRUE, id |-> q, err |-> ""]
PackIdErr(e) == [ok |-> FALSE, id |-> PackId_new(0, 0, 0), err |-> e]

\* str::split('/'): the segments between slashes, empty ones included
RECURSIVE SplitFrom(_, _, _)
SplitFrom(s, i, cur) ==
    IF i > Len(s) THEN <<cur>>
    ELSE IF s[i] = "/" THEN <<cur>> \o SplitFrom(s, i + 1, <<>>)
    ELSE SplitFrom(s, i + 1, Append(cur, s[i]))

Split(s) == SplitFrom(s, 1, <<>>)

\* ^ex([0-9])$: the digit class widened to take 0
EXPANSION_REGEX_any_digit(s) ==
    Len(s) = 3 /\ s[1] = "e" /\ s[2] = "x" /\ IsDigit(s[3])

\* EXPANSION_REGEX ^ex([1-9])$
EXPANSION_REGEX(s) ==
    Len(s) = 3 /\ s[1] = "e" /\ s[2] = "x" /\ IsDigit(s[3]) /\ s[3] # "0"

\* PATCH_REGEX ^([0-9a-f]{2})_
PATCH_REGEX(s) ==
    Len(s) >= 3 /\ IsLowerHex(s[1]) /\ IsLowerHex(s[2]) /\ s[3] = "_"

\* A missing segment handed out as an empty one
next_node_or_empty(nodes, i) ==
    IF i <= Len(nodes) THEN [ok |-> TRUE, node |-> nodes[i]]
    ELSE [ok |-> TRUE, node |-> <<>>]

\* path_nodes.next().ok_or(XivError::PackIdInnerPath), for the i-th call
next_node(nodes, i) ==
    IF i <= Len(nodes) THEN [ok |-> TRUE, node |-> nodes[i]]
    ELSE [ok |-> FALSE, node |-> <<>>]

from_inner_path(path) ==
    LET nodes == Split(path)
        n1 == next_node(nodes, 1)
        n2 == next_node(nodes, 2)
        n3 == next_node(nodes, 3)
    IN
    IF ~n1.ok THEN PackIdErr("PackIdInnerPath")
    ELSE IF CATEGORY_NAME_TO_ID(n1.node) = <<>> THEN PackIdErr("PackIdCategory")
    ELSE LET category == CATEGORY_NAME_TO_ID(n1.node)[1] IN
    IF ~n2.ok THEN PackIdErr("PackIdInnerPath")
    ELSE IF ~EXPANSION_REGEX(n2.node) THEN PackIdOk(PackId_new(category, 0, 0))
    ELSE LET expansion == DecVal(n2.node[3]) IN
    IF ~n3.ok THEN PackIdErr("PackIdInnerPath")
    ELSE IF PATCH_REGEX(n3.node)
         THEN PackIdOk(PackId_new(category, expansion, ParseHex2(SubSeq(n3.node, 1, 2))))
         ELSE PackIdOk(PackId_new(category, expansion, 0))

\* The alternatives (dat\d|index|index2) a name may end with
IsPackExt(s) ==
    \/ s = <<"i", "n", "d", "e", "x">>
    \/ s = <<"i", "n", "d", "e", "x", "2">>
    \/ Len(s) = 4 /\ SubSeq(s, 1, 3) = <<"d", "a", "t">> /\ IsDigit(s[4])

\* SQPACK_NAME_REGEX ^([0-9a-f]{2})([0-9a-f]{2})([0-9a-f]{2}).win32.(dat\d|index|index2)$
\* (its two dots are unescaped: each matches any character)
SQPACK_NAME_REGEX(s) ==
    /\ Len(s) >= 13
    /\ \A i \in 1..6 : IsLowerHex(s[i])
    /\ SubSeq(s, 8, 12) = <<"w", "i", "n", "3", "2">>
    /\ IsPackExt(SubSeq(s, 14, Len(s)))

\* A relative path: its directory and its file name
RepoPath(dir, file) == [dir |-> dir, file |-> file]

from_repo_path(path) ==
    LET file_name == path.file IN
    IF SQPACK_NAME_REGEX(file_name)
    THEN PackIdOk(PackId_new(ParseHex2(SubSeq(file_name, 1, 2)),
                             ParseHex2(SubSeq(file_name, 3, 4)),
                             ParseHex2(SubSeq(file_name, 5, 6))))
    ELSE PackIdErr("PackIdRepoFile")

into_repo_path(q) ==
    RepoPath(IF q.expansion = 0 THEN <<"f", "f", "x", "i", "v">> ELSE <<"e", "x">> \o FormatDec(q.expansion),
             FormatHex02(q.category) \o FormatHex02(q.expansion) \o FormatHex02(q.patch))

\* PathBuf::set_extension on a file name that holds no dot
set_extension(path, ext) == [path EXCEPT !.file = @ \o <<".">> \o ext]

into_index2_path(q) == set_extension(into_repo_path(q), <<"w", "i", "n", "3", "2", ".", "i", "n", "d", "e", "x", "2">>)

into_dat_path(q, num) == set_extension(into_repo_path(q), <<"w", "i", "n", "3", "2", ".", "d", "a", "t">> \o FormatDec(num))
-----------------------------------------------------------------------------
(* read_exd (ex.rs): locale selection and page lookup *)

MaxLangs == 2

Locales ==
    {"None", "Japanese", "English", "German", "French", "ChineseSimplified",
     "ChineseTraditional", "Korean"}

\* Locale::suffix
suffix(l) ==
    CASE l = "None" -> <<>>
      [] l = "Japanese" -> <<"_", "j", "a">>
      [] l = "English" -> <<"_", "e", "n">>
      [] l = "German" -> <<"_", "d", "e">>
      [] l = "French" -> <<"_", "f", "r">>
      [] l = "ChineseSimplified" -> <<"_", "c", "h", "s">>
      [] l = "ChineseTraditional" -> <<"_", "c", "h", "t">>
      [] l = "Korean" -> <<"_", "k", "o">>

UpperCase == <<"A", "B", "C", "D", "E", "F", "G", "H", "I", "J", "K", "L", "M", "N", "O", "P", "Q", "R", "S", "T", "U", "V", "W", "X", "Y", "Z">>
LowerCase == <<"a", "b", "c", "d", "e", "f", "g", "h", "i", "j", "k", "l", "m", "n", "o", "p", "q", "r", "s", "t", "u", "v", "w", "x", "y", "z">>

\* str::to_lowercase on ASCII text
to_lowercase(s) ==
    [i \in 1..Len(s) |->
        IF \E j \in 1..26 : UpperCase[j] = s[i]
        THEN LowerCase[CHOOSE j \in 1..26 : UpperCase[j] = s[i]]
        ELSE s[i]]

Bases == {<<"R", "a", "c", "e">>, <<"i", "t", "e", "m">>}

\* Option<T>: <<>> is None, <<x>> is Some(x)
RECURSIVE iter_find(_, _)
iter_find(s, x) ==
    IF s = <<>> THEN <<>>
    ELSE IF Head(s) = x THEN <<Head(s)>> ELSE iter_find(Tail(s), x)

\* The last listed language instead of the first
last_cloned(s) == IF s = <<>> THEN <<>> ELSE <<s[Len(s)]>>

\* exh.languages.first().cloned()
first_cloned(s) == IF s = <<>> THEN <<>> ELSE <<s[1]>>

option_or(a, b) == IF a # <<>> THEN a ELSE b
unwrap_or(a, d) == IF a # <<>> THEN a[1] ELSE d

\* let exd_locale = exh.languages.iter().cloned().find(|l| *l == locale)
\*     .or(exh.languages.first().cloned()).unwrap_or(Locale::None);
exd_locale(languages, locale) ==
    unwrap_or(option_or(iter_find(languages, locale), first_cloned(languages)), "None")

\* format!("exd/{base_path}_{start_id}{exd_locale}.exd")
exd_path(base_path, start_id, loc) ==
    <<"e", "x", "d", "/">> \o base_path \o <<"_">> \o FormatDec(start_id) \o suffix(loc) \o <<".", "e", "x", "d">>

\* The start_id of the i-th page of the sheets considered
StartId(i) == (i - 1) * 100

ReadExdPending ==
    [pc |-> "pending", exd_locale |-> "None", looked |-> <<>>, kind |-> "", err |-> "",
     err_path |-> <<>>, fileptrs |-> <<>>, found |-> <<>>]

\* The loop over exh.pages leaving out the pages whose file is not found
RECURSIVE FindPagesSkipMissing(_, _, _, _, _, _)
FindPagesSkipMissing(base_path, loc, start_ids, found, i, out) ==
    IF i > Len(start_ids) THEN [out EXCEPT !.pc = "done", !.kind = "Iter"]
    ELSE LET p == exd_path(base_path, start_ids[i], loc)
             o == [out EXCEPT !.looked = Append(@, p)]
         IN
         IF found[i] = "err" THEN [o EXCEPT !.pc = "done", !.kind = "Err", !.err = "IO"]
         ELSE FindPagesSkipMissing(base_path, loc, start_ids, found, i + 1,
                                   IF found[i] = "none" THEN o
                                   ELSE [o EXCEPT !.fileptrs = Append(@, p)])

\* The loop over exh.pages: found[i] is what repo.find answers for page i
RECURSIVE FindPages(_, _, _, _, _, _)
FindPages(base_path, loc, start_ids, found, i, out) ==
    IF i > Len(start_ids) THEN [out EXCEPT !.pc = "done", !.kind = "Iter"]
    ELSE LET p == exd_path(base_path, start_ids[i], loc)
             o == [out EXCEPT !.looked = Append(@, p)]
         IN
         IF found[i] = "err" THEN [o EXCEPT !.pc = "done", !.kind = "Err", !.err = "IO"]
         ELSE IF found[i] = "none"
              THEN [o EXCEPT !.pc = "done", !.kind = "Err", !.err = "ExdNotFound",
                             !.err_path = p]
              ELSE FindPages(base_path, loc, start_ids, found, i + 1,
                             [o EXCEPT !.fileptrs = Append(@, p)])

read_exd(in, found) ==
    LET base_path == to_lowercase(in.base_path) IN
    IF in.exh = "err" THEN [ReadExdPending EXCEPT !.pc = "done", !.kind = "Err", !.err = "IO"]
    ELSE IF in.exh = "none"
         THEN [ReadExdPending EXCEPT !.pc = "done", !.kind = "Err", !.err = "ExhNotFound",
                  !.err_path = <<"e", "x", "d", "/">> \o base_path \o <<".", "e", "x", "h">>]
    ELSE LET loc == exd_locale(in.languages, in.locale) IN
         FindPages(base_path, loc, in.start_ids, found, 1,
                   [ReadExdPending EXCEPT !.exd_locale = loc])
-----------------------------------------------------------------------------
(* Index2 (index2.rs).  A 32- or 64-bit word is the set of its set bits. *)

MaxEntries == 2

Pow2(n) == 2 ^ n

RECURSIVE BitsValue(_)
BitsValue(w) ==
    IF w = {} THEN 0
    ELSE LET b == CHOOSE x \in w : TRUE IN Pow2(b) + BitsValue(w \ {b})

BitAnd(a, b) == a \cap b
Shr(w, n) == {b - n : b \in {x \in w : x >= n}}
\* << on a u32: the bits shifted past bit 31 are lost
Shl32(w, n) == {b + n : b \in w} \cap (0..31)

\* Bit positions the sample locations are built from
LocBits == {0, 1, 2, 3, 4, 7, 28, 29, 31}
Locations == SUBSET LocBits

\* location << 3 with no mask applied
OffsetUnmasked(location) == Shl32(location, 3)

\* let offset = (location & 0xFFFFFFF8) << 3;
EntryOffset(location) == Shl32(BitAnd(location, 3..31), 3)

\* let datnum = (location & 0x00000007) >> 1;
EntryDatnum(location) == BitsValue(Shr(BitAnd(location, {0, 1, 2}), 1))

IndexEntry(location) == [datnum |-> EntryDatnum(location), offset |-> EntryOffset(location)]

\* The virtual paths looked up
PathRoot == <<"e", "x", "d", "/", "r", "o", "o", "t", ".", "e", "x", "l">>
PathRace == <<"e", "x", "d", "/", "r", "a", "c", "e", ".", "e", "x", "h">>
PathSound == <<"s", "o", "u", "n", "d", "/", "e", "x", "1", "/", "0", "0", "_", "a", ".", "s", "c", "d">>
PathBad == <<"f", "o", "o", "/", "b", "a", "r">>

\* HASHER.checksum(path): CRC-32/JAMCRC of the path's bytes
HASHER_checksum(path) ==
    CASE path = PathRoot -> 1041639020
      [] path = PathRace -> 1124525921
      [] path = PathSound -> 1299725603
      [] OTHER -> 0

\* entries.insert(hash, entry) for each record of the file, in file order
RECURSIVE Index2_load(_, _)
Index2_load(records, entries) ==
    IF records = <<>> THEN entries
    ELSE LET r == Head(records) IN
         Index2_load(Tail(records),
                     [h \in (DOMAIN entries) \cup {r.hash} |->
                         IF h = r.hash THEN IndexEntry(r.location) ELSE entries[h]])

EmptyIndex == [h \in {} |-> IndexEntry({})]

\* Index2::find: <<>> for None, <<entry>> for Some(entry)
Index2_find(index, path) ==
    IF HASHER_checksum(path) \in DOMAIN index
    THEN <<index[HASHER_checksum(path)]>>
    ELSE <<>>

-----------------------------------------------------------------------------
(* SqPack (sqpack.rs) *)

MaxThreads == 2

FindNone == [kind |-> "None", err |-> "", path |-> RepoPath(<<>>, <<>>), offset |-> {}]
FindErr(e) == [kind |-> "Err", err |-> e, path |-> RepoPath(<<>>, <<>>), offset |-> {}]
\* Some(InnerFilePtr { path, offset })
FindSome(path, offset) == [kind |-> "Some", err |-> "", path |-> path, offset |-> offset]

\* index.and_then(|index| index.find(path).map(|entry| InnerFilePtr { .. }))
FindIn(index, packid, path) ==
    LET e == Index2_find(index, path) IN
    IF e = <<>> THEN FindNone
    ELSE FindSome(into_dat_path(packid, e[1].datnum), e[1].offset)

\* Files that may lie under the base directory
FileExdIndex2 == RepoPath(<<"f", "f", "x", "i", "v">>, <<"0", "a", "0", "0", "0", "0", ".", "w", "i", "n", "3", "2", ".", "i", "n", "d", "e", "x", "2">>)
FileExdMisplaced == RepoPath(<<"e", "x", "1">>, <<"0", "a", "0", "0", "0", "0", ".", "w", "i", "n", "3", "2", ".", "i", "n", "d", "e", "x", "2">>)
FileSoundIndex2 == RepoPath(<<"e", "x", "1">>, <<"0", "7", "0", "1", "0", "0", ".", "w", "i", "n", "3", "2", ".", "i", "n", "d", "e", "x", "2">>)
FileExdIndex1 == RepoPath(<<"f", "f", "x", "i", "v">>, <<"0", "a", "0", "0", "0", "0", ".", "w", "i", "n", "3", "2", ".", "i", "n", "d", "e", "x">>)
FileTopLevel == RepoPath(<<>>, <<"0", "7", "0", "1", "0", "0", ".", "w", "i", "n", "3", "2", ".", "i", "n", "d", "e", "x", "2">>)

RepoFiles == {FileExdIndex2, FileExdMisplaced, FileSoundIndex2, FileExdIndex1, FileTopLevel}

\* The records of a pack's index2 file
IndexRecords(q) ==
    IF q = PackId_new(10, 0, 0)
    THEN <<[hash |-> HASHER_checksum(PathRoot), location |-> {2, 7}]>>
    ELSE IF q = PackId_new(7, 1, 0)
    THEN <<[hash |-> HASHER_checksum(PathSound), location |-> {8}]>>
    ELSE <<>>

\* file_name.ends_with(".index2")
EndsWithIndex2(name) ==
    Len(name) >= 7 /\ SubSeq(name, Len(name) - 6, Len(name)) = <<".", "i", "n", "d", "e", "x", "2">>

\* SqPack::open: the PackIds registered from the files in the base directory's
\* subdirectories
OpenRegistered(files) ==
    {from_repo_path(f).id :
        f \in {g \in files : /\ g.dir # <<>>
                             /\ EndsWithIndex2(g.file)
                             /\ from_repo_path(g).ok}}

\* OnceCell states
CellIncomplete == [state |-> "incomplete", value |-> 0]
CellRunning == [state |-> "running", value |-> 0]
CellComplete(tok) == [state |-> "complete", value |-> tok]

\* An initializer that starts although another one is running
MayInitUnguarded(cell) == cell.state # "complete"

\* get_or_try_init: the caller may run its initializer
MayInit(cell) == cell.state = "incomplete"

\* A failed initializer leaving the cell as it was while it ran
FailedInitKept(cell) == cell

\* get_or_try_init whose initializer returned Err: the cell is empty again
FailedInit(cell) == CellIncomplete

ThreadIdle ==
    [pc |-> "idle", path |-> <<>>, packid |-> PackId_new(0, 0, 0), got |-> 0,
     res |-> FindNone]
-----------------------------------------------------------------------------
(* Inner files of a dat file (dat.rs).  A position is a byte offset in the   *)
(* dat file; a decoded block is named by its index in the file.              *)

MaxChunks == 2
MaxBlocks == 2

BLOCK_HEADER_LEN == 16
BLOCK_PADDING == 128
COMPRESSION_THRESHOLD == 32000

\* BlockHeader values of the blocks considered
BlockHeaders ==
    {[size_compressed |-> 96, size_uncompressed |-> 200],
     [size_compressed |-> 100, size_uncompressed |-> 200],
     [size_compressed |-> 112, size_uncompressed |-> 240],
     [size_compressed |-> 32000, size_uncompressed |-> 200],
     [size_compressed |-> 32000, size_uncompressed |-> 240]}

\* FileHeader.len values of the inner files considered
HeaderLens == {128, 256}

RECURSIVE SumInts(_)
SumInts(s) == IF s = <<>> THEN 0 ELSE Head(s) + SumInts(Tail(s))

\* Per chunk (mipmap), its block_count
DatShapes == {sh \in SeqsUpTo(0..MaxBlocks, MaxChunks) : SumInts(sh) <= MaxBlocks}

\* let is_compressed = header.size_compressed < COMPRESSION_THRESHOLD;
is_compressed(header) == header.size_compressed < COMPRESSION_THRESHOLD

\* let read_size = if is_compressed { size_compressed } else { size_uncompressed }
read_size(header) ==
    IF is_compressed(header) THEN header.size_compressed ELSE header.size_uncompressed

\* No padding skipped after the payload
padding_none(size) == 0

\* let padding = BLOCK_PADDING - (BLOCK_HEADER_LEN + read_size) % BLOCK_PADDING;
padding(size) == BLOCK_PADDING - ((BLOCK_HEADER_LEN + size) % BLOCK_PADDING)

\* Bytes a block takes in the file: header and payload, filled up to the next
\* 128-byte boundary
BlockSpan(header) ==
    ((BLOCK_HEADER_LEN + read_size(header) + BLOCK_PADDING - 1) \div BLOCK_PADDING)
        * BLOCK_PADDING

\* Where the blocks of a file start, and where the last one ends
RECURSIVE BlockStarts(_, _)
BlockStarts(headers, pos) ==
    IF headers = <<>> THEN <<pos>>
    ELSE <<pos>> \o BlockStarts(Tail(headers), pos + BlockSpan(Head(headers)))

DataStart(in) == in.offset + in.len

\* The block whose header is at pos (0 when none is)
BlockAt(in, pos) ==
    LET starts == BlockStarts(in.headers, DataStart(in)) IN
    IF \E i \in 1..Len(in.headers) : starts[i] = pos
    THEN CHOOSE i \in 1..Len(in.headers) : starts[i] = pos
    ELSE 0

\* The first block of chunk c
ChunkFirst(in, c) == 1 + SumInts(SubSeq(in.counts, 1, c - 1))

\* ChunkHeader.offset / MipmapHeader.offset of chunk c
ChunkOffset(in, c) ==
    BlockStarts(in.headers, DataStart(in))[ChunkFirst(in, c)] - DataStart(in)

\* The stream and the outputs while an inner file is read
\* (reads: the positions at which a block header was read)
DatStream(pos) == [ok |-> TRUE, err |-> "", pos |-> pos, out |-> <<>>, reads |-> <<>>]

read_block(in, st) ==
    LET i == BlockAt(in, st.pos) IN
    IF i = 0
    THEN [st EXCEPT !.ok = FALSE, !.err = "DatBlockHeader", !.reads = Append(@, st.pos)]
    ELSE LET size == read_size(in.headers[i]) IN
         [st EXCEPT !.pos = st.pos + BLOCK_HEADER_LEN + size + padding(size),
                    !.out = Append(@, i),
                    !.reads = Append(@, st.pos)]

DatPending ==
    [op |-> "pending", kind |-> "", err |-> "", start |-> 0, pos |-> 0,
     data |-> <<>>, reads |-> <<>>]

DatErr(op, e) == [DatPending EXCEPT !.op = op, !.kind = "Err", !.err = e]

\* InnerFilePtr::open, then the FileHeader read
open_header(in, op) ==
    IF in.file = "missing" THEN DatErr(op, "IO")
    ELSE IF in.file = "badheader" THEN DatErr(op, "DatFileHeader")
    ELSE DatPending

\* for chunk in header.chunks { seek; read_block }
RECURSIVE PlainChunks(_, _, _)
PlainChunks(in, c, st) ==
    IF c > Len(in.counts) \/ ~st.ok THEN st
    ELSE PlainChunks(in, c + 1,
                     read_block(in, [st EXCEPT !.pos = DataStart(in) + ChunkOffset(in, c)]))

read_plain_file(in) ==
    LET st == PlainChunks(in, 1, DatStream(in.offset)) IN
    IF ~st.ok THEN DatErr("plain", st.err)
    ELSE [DatPending EXCEPT !.op = "plain", !.kind = "Ok", !.pos = st.pos,
                            !.data = <<st.out>>, !.reads = st.reads]

\* let _header = FileHeader::read(..)?; todo!(..)
read_model_file(in) == [DatPending EXCEPT !.op = "model", !.kind = "Panic"]

\* for _block_idx in 0..mipmap.block_count { read_block(&mut input, &mut data)?; }
RECURSIVE MipmapBlocks(_, _, _)
MipmapBlocks(in, n, st) ==
    IF n = 0 \/ ~st.ok THEN st ELSE MipmapBlocks(in, n - 1, read_block(in, st))

\* for mipmap in header.mipmaps { seek; read its blocks; mipmaps.push(data) }
RECURSIVE Mipmaps(_, _, _, _)
Mipmaps(in, c, st, mipmaps) ==
    IF c > Len(in.counts) \/ ~st.ok THEN [st |-> st, mipmaps |-> mipmaps]
    ELSE LET m == MipmapBlocks(in, in.counts[c],
                               [st EXCEPT !.pos = DataStart(in) + ChunkOffset(in, c),
                                          !.out = <<>>])
         IN Mipmaps(in, c + 1, m, IF m.ok THEN Append(mipmaps, m.out) ELSE mipmaps)

read_image_file(in) ==
    LET r == Mipmaps(in, 1, DatStream(in.offset), <<>>) IN
    IF ~r.st.ok THEN [DatErr("image", r.st.err) EXCEPT !.reads = r.st.reads]
    ELSE [DatPending EXCEPT !.op = "image", !.kind = "Ok", !.pos = r.st.pos,
                            !.data = r.mipmaps, !.reads = r.st.reads]

\* self.open().and_then(read_plain_file)
read_plain(in) ==
    IF open_header(in, "plain").kind = "Err" THEN open_header(in, "plain")
    ELSE read_plain_file(in)

\* self.open().and_then(read_model_file)
read_model(in) ==
    IF open_header(in, "model").kind = "Err" THEN open_header(in, "model")
    ELSE read_model_file(in)

\* self.open().and_then(read_image_file)
read_image(in) ==
    IF open_header(in, "image").kind = "Err" THEN open_header(in, "image")
    ELSE read_image_file(in)

DatNoInput == [file |-> "missing", offset |-> 0, len |-> 0, counts |-> <<>>, headers |-> <<>>]

-----------------------------------------------------------------------------
(* The row binder (ex.rs): ExdRowReader as serde Deserializer and SeqAccess. *)
(* A column's type is its ValueType tag; every column reads the row's one    *)
(* data byte.                                                                *)

MaxCols == 2
MaxFields == 4

\* ValueType tags: Bool, UInt8, PackedBool0 .. PackedBool7
ColTypes == {1, 3} \cup (25..32)

\* The row's data byte: every value for one-column rows
RowBytes(columns) == IF Len(columns) = 1 THEN 0..255 ELSE {0, 255}

\* Bit k of a byte
Bit(b, k) == (b \div (2 ^ k)) % 2

\* & on two u8, from bit k down
RECURSIVE ByteAndFrom(_, _, _)
ByteAndFrom(a, m, k) ==
    IF k < 0 THEN 0 ELSE Bit(a, k) * Bit(m, k) * (2 ^ k) + ByteAndFrom(a, m, k - 1)

ByteAnd(a, m) == ByteAndFrom(a, m, 7)

\* The literal PackedBoolK is tested against
PackedBoolMask(vtype) == vtype - 24

\* A value handed to the visitor
Cell(kind, v) == [kind |-> kind, v |-> v]

\* match column.vtype { .. }
DecodeColumn(vtype, b) ==
    IF vtype = 3 THEN Cell("u8", b)
    ELSE IF vtype = 1 THEN Cell("bool", b # 0)
    ELSE Cell("bool", ByteAnd(b, PackedBoolMask(vtype)) # 0)

ExdRowReader_new(id, subid) ==
    [id |-> id, id_expected |-> TRUE,
     subid |-> IF subid = NoSub THEN 0 ELSE subid, subid_expected |-> subid # NoSub,
     column_idx |-> 0]

\* Result<Option<Value>, ExdDeserializerError> and the reader afterwards
ElemSome(rd, value) == [kind |-> "Some", rd |-> rd, value |-> value, msg |-> ""]
ElemNone(rd) == [kind |-> "None", rd |-> rd, value |-> Cell("", 0), msg |-> ""]
ElemErr(rd, msg) == [kind |-> "Err", rd |-> rd, value |-> Cell("", 0), msg |-> msg]

deserialize_any(in, rd) ==
    IF rd.id_expected
    THEN ElemSome([rd EXCEPT !.id_expected = FALSE], Cell("u32", rd.id))
    ELSE IF rd.subid_expected
    THEN ElemSome([rd EXCEPT !.subid_expected = FALSE], Cell("u16", rd.subid))
    ELSE IF rd.column_idx + 1 > Len(in.columns)
    THEN ElemErr(rd, "not enough columns in exd file")
    ELSE ElemSome([rd EXCEPT !.column_idx = @ + 1],
                  DecodeColumn(in.columns[rd.column_idx + 1], in.byte))

next_element_seed(in, rd) ==
    IF rd.column_idx < Len(in.columns) THEN deserialize_any(in, rd) ELSE ElemNone(rd)

\* Result<T, XivError> of binding one row
RowPending == [op |-> "pending", kind |-> "", err |-> "", msg |-> "", fields |-> 0, cells |-> <<>>]
RowOk(cells) == [RowPending EXCEPT !.kind = "Row", !.cells = cells]
\* .map_err(|e| XivError::ExdDeserialization(e.0))
RowErr(msg) == [RowPending EXCEPT !.kind = "Err", !.err = "ExdDeserialization", !.msg = msg]

\* Vec<Value>: elements are taken until the sequence ends
RECURSIVE VecVisitSeq(_, _, _)
VecVisitSeq(in, rd, cells) ==
    LET e == next_element_seed(in, rd) IN
    IF e.kind = "Err" THEN RowErr(e.msg)
    ELSE IF e.kind = "None" THEN RowOk(cells)
    ELSE VecVisitSeq(in, e.rd, Append(cells, e.value))

\* A record built from the fields read so far
MissingFieldIgnored(cells) == RowOk(cells)

\* A derived record whose next field finds the sequence at its end
MissingField(cells) == RowErr("invalid length")

\* #[derive(Deserialize)] on a struct of n fields: one element per field
RECURSIVE RecordVisitSeq(_, _, _, _)
RecordVisitSeq(in, rd, n, cells) ==
    IF Len(cells) = n THEN RowOk(cells)
    ELSE LET e == next_element_seed(in, rd) IN
         IF e.kind = "Err" THEN RowErr(e.msg)
         ELSE IF e.kind = "None" THEN MissingField(cells)
         ELSE RecordVisitSeq(in, e.rd, n, Append(cells, e.value))

RowNoInput == [id |-> 0, subid |-> NoSub, columns |-> <<>>, byte |-> 0]

-----------------------------------------------------------------------------
(* The seek of read_next_subrow (ex.rs) on a SubRows sheet, for any stride.  *)
(* The u16 product panics on overflow when the build checks overflow and     *)
(* wraps when it does not.                                                   *)

\* Exh.data_offset values, up to the end of the u16 range
StrideSamples == {4, 100, 32766, 40000, 65534, 65535}

\* ExdRowPtr.offset values
RowOffsets == {40, 48, 1000}

Builds == {"overflow-checks", "wrapping"}

\* (2 + self.exh.data_offset) * self.subrow_index leaves the u16 range
SubrowOverflows(data_offset, k) ==
    2 + data_offset > 65535 \/ (2 + data_offset) * k > 65535

SubPending == [kind |-> "pending", subid_at |-> 0, base |-> 0]

\* The seek, the sub-id read and cursor.position() of read_next_subrow
subrow_seek(in) ==
    IF in.build = "overflow-checks" /\ SubrowOverflows(in.data_offset, in.k)
    THEN [SubPending EXCEPT !.kind = "Panic"]
    ELSE LET pos == in.offset + RowHeaderSize + SubrowOffset("SubRows", in.data_offset, in.k)
         IN [kind |-> "Pos", subid_at |-> pos, base |-> pos + 2]

SubNoInput == [data_offset |-> 0, k |-> 0, offset |-> 0, build |-> "wrapping"]

-----------------------------------------------------------------------------
(* Idle values: the state of a part no operation of which is running *)

ExdIdle ==
    /\ exh = [variant |-> "Normal", data_offset |-> 4, row_count |-> 0]
    /\ pages = <<>>
    /\ fault = NoFault
    /\ iter = 1
    /\ frontiter = NoReader
    /\ item = NotCalled
    /\ prev = NotCalled
    /\ yielded = <<>>
    /\ post = 0
    /\ loads = <<>>

PidNoInput == [kind |-> "none", q |-> PackId_new(0, 0, 0), path |-> <<>>]
PidPending ==
    [op |-> "pending", num |-> 0, path |-> RepoPath(<<>>, <<>>), res |-> PackIdErr("")]

PidIdle == pidIn = PidNoInput /\ pidOut = PidPending

RxNoInput ==
    [base_path |-> <<>>, locale |-> "None", exh |-> "none", languages |-> <<>>,
     start_ids |-> <<>>]

RxIdle == rxIn = RxNoInput /\ rxOut = ReadExdPending

IxNotFound == [path |-> <<>>, res |-> FindNone]

IxIdle == ixFile = <<>> /\ ixIndex = <<>> /\ ixFound = IxNotFound

SqIdle ==
    /\ fs = {}
    /\ opened = FALSE
    /\ indexes = [q \in {} |-> CellIncomplete]
    /\ th = [t \in 1..MaxThreads |-> ThreadIdle]
    /\ published = {}

DatIdle == datIn = DatNoInput /\ datOut = DatPending

RowIdle == rowIn = RowNoInput /\ rowOut = RowPending

SubIdle == subIn = SubNoInput /\ subOut = SubPending

-----------------------------------------------------------------------------
(* Spec: the iterator read_exd returned, driven by next() *)

Init ==
    /\ \E v \in Variants, stride \in Strides, shape \in Shapes :
          /\ exh = [variant |-> v, data_offset |-> stride, row_count |-> SumLens(shape)]
          /\ pages = MkPages(v, stride, shape, 0)
          /\ fault \in Faults(v, shape)
    /\ iter = 1
    /\ frontiter = NoReader
    /\ item = NotCalled
    /\ prev = NotCalled
    /\ yielded = <<>>
    /\ post = 0
    /\ loads = [p \in 1..Len(pages) |-> NoLoad]
    /\ PidIdle /\ RxIdle /\ IxIdle /\ SqIdle /\ DatIdle /\ RowIdle /\ SubIdle

\* One call of next() on the iterator read_exd returned
NextCall ==
    /\ post < MaxPost
    /\ \A p \in 1..Len(loads) : loads[p].reads < MaxLoads /\ loads[p].parses < MaxLoads
    /\ loads' = FlatLoads(iter, frontiter, loads, Len(yielded))
    /\ LET r == FlatNext(iter, frontiter) IN
          /\ iter' = r.iter
          /\ frontiter' = r.frontiter
          /\ item' = r.res
          /\ prev' = item
          /\ yielded' = IF r.res.kind = "Row" THEN Append(yielded, r.res) ELSE yielded
          /\ post' = IF r.res.kind = "None" THEN post + 1 ELSE post
    /\ UNCHANGED <<exh, pages, fault, pidVars, rxVars, ixVars, sqVars, datVars, rowVars, subVars>>

Next == NextCall

Spec == Init /\ [][Next]_vars

\* The caller keeps calling next()
FairSpec == Spec /\ WF_vars(NextCall)

-----------------------------------------------------------------------------
(* SpecPackId: PackId's conversions applied to sample ids and paths *)

Segments ==
    {<<"e", "x", "d">>, <<"c", "o", "m", "m", "o", "n">>, <<"s", "o", "u", "n", "d">>, <<"f", "o", "o", "b", "a", "r">>, <<"e", "x", "1">>, <<"e", "x", "2">>, <<"e", "x", "0">>,
     <<"0", "1", "_", "t", "e", "s", "t", "f", "i", "l", "e">>, <<"1", "f", "_", "x">>, <<"t", "e", "s", "t", ".", "e", "x", "d">>, <<>>}

RECURSIVE Join(_)
Join(segs) ==
    IF Len(segs) = 1 THEN segs[1] ELSE segs[1] \o <<"/">> \o Join(Tail(segs))

InnerPaths == {Join(segs) : segs \in SeqsUpTo(Segments, MaxSegs) \ {<<>>}}

InitPackId ==
    /\ \/ \E c \in ByteSamples, e \in ByteSamples, p \in ByteSamples :
             pidIn = [kind |-> "packid", q |-> PackId_new(c, e, p), path |-> <<>>]
       \/ \E path \in InnerPaths :
             pidIn = [kind |-> "path", q |-> PackId_new(0, 0, 0), path |-> path]
    /\ pidOut = PidPending
    /\ ExdIdle /\ RxIdle /\ IxIdle /\ SqIdle /\ DatIdle /\ RowIdle /\ SubIdle

\* PackId::from_repo_path(q.into_index2_path())
Index2RoundTrip ==
    /\ pidIn.kind = "packid" /\ pidOut.op = "pending"
    /\ pidOut' = [op |-> "index2", num |-> 0, path |-> into_index2_path(pidIn.q),
                  res |-> from_repo_path(into_index2_path(pidIn.q))]
    /\ UNCHANGED <<pidIn, exdVars, rxVars, ixVars, sqVars, datVars, rowVars, subVars>>

\* PackId::from_repo_path(q.into_dat_path(n))
DatRoundTrip ==
    /\ pidIn.kind = "packid" /\ pidOut.op = "pending"
    /\ \E n \in 0..9 :
          pidOut' = [op |-> "dat", num |-> n, path |-> into_dat_path(pidIn.q, n),
                     res |-> from_repo_path(into_dat_path(pidIn.q, n))]
    /\ UNCHANGED <<pidIn, exdVars, rxVars, ixVars, sqVars, datVars, rowVars, subVars>>

\* PackId::from_inner_path(path)
FromInnerPath ==
    /\ pidIn.kind = "path" /\ pidOut.op = "pending"
    /\ pidOut' = [op |-> "inner", num |-> 0, path |-> RepoPath(<<>>, <<>>),
                  res |-> from_inner_path(pidIn.path)]
    /\ UNCHANGED <<pidIn, exdVars, rxVars, ixVars, sqVars, datVars, rowVars, subVars>>

NextPackId == Index2RoundTrip \/ DatRoundTrip \/ FromInnerPath

SpecPackId == InitPackId /\ [][NextPackId]_vars

-----------------------------------------------------------------------------
(* SpecReadExd: one call of read_exd *)

InitReadExd ==
    /\ \E b \in Bases, l \in Locales, e \in {"ok", "none", "err"},
          langs \in SeqsUpTo(Locales, MaxLangs), n \in 0..MaxPages :
          rxIn = [base_path |-> b, locale |-> l, exh |-> e, languages |-> langs,
                  start_ids |-> [i \in 1..n |-> StartId(i)]]
    /\ rxOut = ReadExdPending
    /\ ExdIdle /\ PidIdle /\ IxIdle /\ SqIdle /\ DatIdle /\ RowIdle /\ SubIdle

\* read_exd(repo, base_path, locale), the repository answering each find
ReadExd ==
    /\ rxOut.pc = "pending"
    /\ \E found \in [1..Len(rxIn.start_ids) -> {"some", "none", "err"}] :
          rxOut' = [read_exd(rxIn, found) EXCEPT !.found = found]
    /\ UNCHANGED <<rxIn, exdVars, pidVars, ixVars, sqVars, datVars, rowVars, subVars>>

NextReadExd == ReadExd

SpecReadExd == InitReadExd /\ [][NextReadExd]_vars

-----------------------------------------------------------------------------
(* SpecIndex: an index2 file loaded, then searched *)

IndexFiles ==
    {<<>>}
    \cup {<<[hash |-> HASHER_checksum(PathRoot), location |-> loc]>> \o rest :
            loc \in Locations,
            rest \in SeqsUpTo([hash : {HASHER_checksum(PathRoot), HASHER_checksum(PathRace)},
                               location : {{7}, {3}}], MaxEntries - 1)}

InitIndex ==
    /\ ixFile \in IndexFiles
    /\ ixIndex = <<>>
    /\ ixFound = IxNotFound
    /\ ExdIdle /\ PidIdle /\ RxIdle /\ SqIdle /\ DatIdle /\ RowIdle /\ SubIdle

\* Index2::load
IxLoad ==
    /\ ixIndex = <<>>
    /\ ixIndex' = <<Index2_load(ixFile, EmptyIndex)>>
    /\ UNCHANGED <<ixFile, ixFound, exdVars, pidVars, rxVars, sqVars, datVars, rowVars, subVars>>

\* SqPack::find on the loaded index
IxFind ==
    /\ ixIndex # <<>> /\ ixFound.path = <<>>
    /\ \E path \in {PathRoot, PathRace} :
          ixFound' = [path |-> path,
                      res |-> FindIn(ixIndex[1], from_inner_path(path).id, path)]
    /\ UNCHANGED <<ixFile, ixIndex, exdVars, pidVars, rxVars, sqVars, datVars, rowVars, subVars>>

NextIndex == IxLoad \/ IxFind

SpecIndex == InitIndex /\ [][NextIndex]_vars

-----------------------------------------------------------------------------
(* SpecSqPack: SqPack::open, then find called from several threads *)

InitSqPack ==
    /\ fs \in SUBSET RepoFiles
    /\ opened = FALSE
    /\ indexes = [q \in {} |-> CellIncomplete]
    /\ th = [t \in 1..MaxThreads |-> ThreadIdle]
    /\ published = {}
    /\ ExdIdle /\ PidIdle /\ RxIdle /\ IxIdle /\ DatIdle /\ RowIdle /\ SubIdle

\* SqPack::open(base_path)
Open ==
    /\ ~opened
    /\ opened' = TRUE
    /\ indexes' = [q \in OpenRegistered(fs) |-> CellIncomplete]
    /\ UNCHANGED <<fs, th, published, exdVars, pidVars, rxVars, ixVars, datVars, rowVars, subVars>>

\* find: from_inner_path and the lookup of the pack's slot
FindCall(t, path) ==
    /\ opened /\ th[t].pc \in {"idle", "done"}
    /\ LET r == from_inner_path(path) IN
       th' = [th EXCEPT ![t] =
                IF ~r.ok
                THEN [ThreadIdle EXCEPT !.pc = "done", !.path = path, !.res = FindErr(r.err)]
                ELSE IF r.id \notin DOMAIN indexes
                THEN [ThreadIdle EXCEPT !.pc = "done", !.path = path, !.packid = r.id]
                ELSE [ThreadIdle EXCEPT !.pc = "cell", !.path = path, !.packid = r.id]]
    /\ UNCHANGED <<fs, opened, indexes, published, exdVars, pidVars, rxVars, ixVars, datVars, rowVars, subVars>>

\* get_or_try_init on a cell that holds a value
CellGet(t) ==
    /\ th[t].pc = "cell"
    /\ indexes[th[t].packid].state = "complete"
    /\ th' = [th EXCEPT ![t].pc = "lookup", ![t].got = indexes[th[t].packid].value]
    /\ UNCHANGED <<fs, opened, indexes, published, exdVars, pidVars, rxVars, ixVars, datVars, rowVars, subVars>>

\* get_or_try_init on an empty cell: this thread runs the initializer; a thread
\* that finds another initializer running waits
CellInit(t) ==
    /\ th[t].pc = "cell"
    /\ MayInit(indexes[th[t].packid])
    /\ indexes' = [indexes EXCEPT ![th[t].packid] = CellRunning]
    /\ th' = [th EXCEPT ![t].pc = "loading"]
    /\ UNCHANGED <<fs, opened, published, exdVars, pidVars, rxVars, ixVars, datVars, rowVars, subVars>>

\* Index2::load succeeds: the Arc is stored in the cell
LoadOk(t) ==
    /\ th[t].pc = "loading"
    /\ into_index2_path(th[t].packid) \in fs
    /\ LET tok == Cardinality(published) + 1 IN
          /\ published' = published \cup {[pack |-> th[t].packid, tok |-> tok]}
          /\ indexes' = [indexes EXCEPT ![th[t].packid] = CellComplete(tok)]
          /\ th' = [th EXCEPT ![t].pc = "lookup", ![t].got = tok]
    /\ UNCHANGED <<fs, opened, exdVars, pidVars, rxVars, ixVars, datVars, rowVars, subVars>>

\* Index2::load fails (the file cannot be opened, or cannot be read): the cell
\* stays empty and find returns the error
LoadFail(t) ==
    /\ th[t].pc = "loading"
    /\ indexes' = [indexes EXCEPT ![th[t].packid] = FailedInit(@)]
    /\ th' = [th EXCEPT ![t].pc = "done",
                        ![t].res = IF into_index2_path(th[t].packid) \in fs
                                   THEN FindErr("Index2Header") ELSE FindErr("IO")]
    /\ UNCHANGED <<fs, opened, published, exdVars, pidVars, rxVars, ixVars, datVars, rowVars, subVars>>

\* index.find(path) on the index obtained
Lookup(t) ==
    /\ th[t].pc = "lookup"
    /\ th' = [th EXCEPT ![t].pc = "done",
                        ![t].res = FindIn(Index2_load(IndexRecords(th[t].packid), EmptyIndex),
                                          th[t].packid, th[t].path)]
    /\ UNCHANGED <<fs, opened, indexes, published, exdVars, pidVars, rxVars, ixVars, datVars, rowVars, subVars>>

FindPaths == {PathRoot, PathRace, PathSound, PathBad}

NextSqPack ==
    \/ Open
    \/ \E t \in 1..MaxThreads, path \in FindPaths : FindCall(t, path)
    \/ \E t \in 1..MaxThreads : CellGet(t)
    \/ \E t \in 1..MaxThreads : CellInit(t)
    \/ \E t \in 1..MaxThreads : LoadOk(t)
    \/ \E t \in 1..MaxThreads : LoadFail(t)
    \/ \E t \in 1..MaxThreads : Lookup(t)

SpecSqPack == InitSqPack /\ [][NextSqPack]_vars

-----------------------------------------------------------------------------
(* SpecDat: one read of an inner file, or of one of its blocks *)

InitDat ==
    /\ \E f \in {"ok", "missing", "badheader"}, o \in {0, BLOCK_PADDING}, l \in HeaderLens,
          sh \in DatShapes :
          \E hs \in [1..SumInts(sh) -> BlockHeaders] :
             datIn = [file |-> f, offset |-> o, len |-> l, counts |-> sh, headers |-> hs]
    /\ datOut = DatPending
    /\ ExdIdle /\ PidIdle /\ RxIdle /\ IxIdle /\ SqIdle /\ RowIdle /\ SubIdle

\* read_block with the stream at the start of one of the file's blocks
DatReadBlock ==
    /\ datOut.op = "pending" /\ datIn.file = "ok"
    /\ \E i \in 1..Len(datIn.headers) :
          LET start == BlockStarts(datIn.headers, DataStart(datIn))[i]
              st == read_block(datIn, DatStream(start))
          IN datOut' = [DatPending EXCEPT !.op = "block", !.kind = "Ok", !.start = start,
                                          !.pos = st.pos, !.data = <<st.out>>,
                                          !.reads = st.reads]
    /\ UNCHANGED <<datIn, exdVars, pidVars, rxVars, ixVars, sqVars, rowVars, subVars>>

\* InnerFilePtr::read_plain, on a file each chunk of which is one block
DatReadPlain ==
    /\ datOut.op = "pending"
    /\ \A c \in 1..Len(datIn.counts) : datIn.counts[c] = 1
    /\ datOut' = read_plain(datIn)
    /\ UNCHANGED <<datIn, exdVars, pidVars, rxVars, ixVars, sqVars, rowVars, subVars>>

\* InnerFilePtr::read_model
DatReadModel ==
    /\ datOut.op = "pending"
    /\ datOut' = read_model(datIn)
    /\ UNCHANGED <<datIn, exdVars, pidVars, rxVars, ixVars, sqVars, rowVars, subVars>>

\* InnerFilePtr::read_image
DatReadImage ==
    /\ datOut.op = "pending"
    /\ datOut' = read_image(datIn)
    /\ UNCHANGED <<datIn, exdVars, pidVars, rxVars, ixVars, sqVars, rowVars, subVars>>

NextDat == DatReadBlock \/ DatReadPlain \/ DatReadModel \/ DatReadImage

SpecDat == InitDat /\ [][NextDat]_vars

-----------------------------------------------------------------------------
(* SpecRow: one row bound to a Vec<Value> or to a record *)

RowIds == {7}
SubIds == {NoSub, 3}

InitRow ==
    /\ \E id \in RowIds, s \in SubIds, cols \in SeqsUpTo(ColTypes, MaxCols) :
          \E b \in RowBytes(cols) :
             rowIn = [id |-> id, subid |-> s, columns |-> cols, byte |-> b]
    /\ rowOut = RowPending
    /\ ExdIdle /\ PidIdle /\ RxIdle /\ IxIdle /\ SqIdle /\ DatIdle /\ SubIdle

\* Row::deserialize(&mut ExdRowReader::new(..)) with Row = Vec<Value>
BindRow ==
    /\ rowOut.op = "pending"
    /\ rowOut' = [VecVisitSeq(rowIn, ExdRowReader_new(rowIn.id, rowIn.subid), <<>>)
                     EXCEPT !.op = "vec"]
    /\ UNCHANGED <<rowIn, exdVars, pidVars, rxVars, ixVars, sqVars, datVars, subVars>>

\* T::deserialize(&mut ExdRowReader::new(..)) with T a record of n fields
BindRecord ==
    /\ rowOut.op = "pending"
    /\ \E n \in 0..MaxFields :
          rowOut' = [RecordVisitSeq(rowIn, ExdRowReader_new(rowIn.id, rowIn.subid), n, <<>>)
                        EXCEPT !.op = "record", !.fields = n]
    /\ UNCHANGED <<rowIn, exdVars, pidVars, rxVars, ixVars, sqVars, datVars, subVars>>

NextRow == BindRow \/ BindRecord

SpecRow == InitRow /\ [][NextRow]_vars

-----------------------------------------------------------------------------
(* SpecSub: the position read_next_subrow seeks to *)

InitSub ==
    /\ \E d \in StrideSamples, k \in 0..MaxSub, o \in RowOffsets, b \in Builds :
          subIn = [data_offset |-> d, k |-> k, offset |-> o, build |-> b]
    /\ subOut = SubPending
    /\ ExdIdle /\ PidIdle /\ RxIdle /\ IxIdle /\ SqIdle /\ DatIdle /\ RowIdle

SubrowSeek ==
    /\ subOut.kind = "pending"
    /\ subOut' = subrow_seek(subIn)
    /\ UNCHANGED <<subIn, exdVars, pidVars, rxVars, ixVars, sqVars, datVars, rowVars>>

NextSub == SubrowSeek

SpecSub == InitSub /\ [][NextSub]_vars

-----------------------------------------------------------------------------
(* Claims about the row iterator *)

RECURSIVE AllPtrs(_)
AllPtrs(ps) == IF ps = <<>> THEN <<>> ELSE Head(ps).rows \o AllPtrs(Tail(ps))

\* The iteration ran to its end without meeting unreadable data
Completed == fault = NoFault /\ post > 0

\* C1: whenever next() yields an error item, the following next() returns the
\* terminator (and nothing else is yielded for that page).
C1_ErrorThenTerminator == prev.kind = "Err" => item.kind = "None"

\* C2: a Normal sheet yields exactly one row per row pointer, with the pointer's
\* id, no sub-id, read at offset + 6, whatever the header's subrow_count is.
C2_NormalOneRowPerPointer ==
    (exh.variant = "Normal" /\ Completed) =>
        yielded = [i \in 1..Len(AllPtrs(pages)) |->
                      RowItem(AllPtrs(pages)[i].id, NoSub,
                              AllPtrs(pages)[i].offset + RowHeaderSize)]

RECURSIVE SubRowsOf(_)
SubRowsOf(ptrs) ==
    IF ptrs = <<>> THEN <<>>
    ELSE [k \in 1..Head(ptrs).subrow_count |-> <<Head(ptrs).id, k - 1>>]
         \o SubRowsOf(Tail(ptrs))

\* C3: a SubRows sheet, iterated to exhaustion, yields for every row pointer of
\* every page, in order, its sub-rows 0..subrow_count-1 with the pointer's id;
\* a pointer with subrow_count 0 contributes nothing and hides no later row.
C3_SubRowsAllYielded ==
    (exh.variant = "SubRows" /\ Completed) =>
        [i \in 1..Len(yielded) |-> <<yielded[i].id, yielded[i].subid>>]
            = SubRowsOf(AllPtrs(pages))

\* The sub-rows all row headers of the sheet announce
RECURSIVE TotalSub(_)
TotalSub(ptrs) ==
    IF ptrs = <<>> THEN 0 ELSE Head(ptrs).subrow_count + TotalSub(Tail(ptrs))

\* C4: without read or decode errors every next() returns a row or the terminator
\* and at most TotalSub rows are ever returned, so the terminator comes after
\* finitely many calls; it comes only once every page is exhausted, and after it
\* every next() returns the terminator again.
C4_TerminatesAndStaysTerminated ==
    /\ Len(yielded) <= TotalSub(AllPtrs(pages))
    /\ fault = NoFault => item.kind \in {"NotCalled", "Row", "None"}
    /\ item.kind = "None" => iter > Len(pages) /\ frontiter = NoReader
    /\ prev.kind = "None" => item.kind = "None"

C4_Witness ==
    /\ fault = NoFault /\ post = MaxPost /\ prev.kind = "None" /\ item.kind = "None"
    /\ Len(pages) = 2 /\ Len(yielded) >= 2

\* C4 (liveness form, under FairSpec): without errors the terminator is
\* eventually returned and from then on always.
C4_EventuallyTerminator ==
    (fault = NoFault) => <>[](item.kind = "None")

-----------------------------------------------------------------------------
(* Claims about read_exd *)

\* C5: the effective locale is the requested one if it occurs anywhere in the
\* EXH languages, else languages[0] if there is one, else Locale::None; the file
\* name of every page looked up carries that one locale's suffix.
C5_EffectiveLocale ==
    (rxOut.pc = "done" /\ rxIn.exh = "ok") =>
        LET want == IF \E i \in 1..Len(rxIn.languages) : rxIn.languages[i] = rxIn.locale
                    THEN rxIn.locale
                    ELSE IF Len(rxIn.languages) > 0 THEN rxIn.languages[1] ELSE "None"
        IN
        /\ rxOut.exd_locale = want
        /\ \A i \in 1..Len(rxOut.looked) :
              rxOut.looked[i] = exd_path(to_lowercase(rxIn.base_path), rxIn.start_ids[i], want)

C5_Witness ==
    /\ rxOut.pc = "done" /\ rxOut.kind = "Iter" /\ Len(rxOut.looked) = 2
    /\ Len(rxIn.languages) = 2 /\ rxIn.languages[1] # rxIn.languages[2]
    /\ rxIn.locale # rxIn.languages[1] /\ rxIn.locale # rxIn.languages[2]
    /\ rxOut.exd_locale = rxIn.languages[1]

-----------------------------------------------------------------------------
(* Claims about SqPack *)

\* C6: find returns None, never an error, when the pack the path maps to is not
\* in the installation (no index2 file at the PackId's index2 path).
C6_MissingPackIsNone ==
    \A t \in 1..MaxThreads :
        (/\ th[t].pc = "done"
         /\ from_inner_path(th[t].path).ok
         /\ into_index2_path(from_inner_path(th[t].path).id) \notin fs)
        => th[t].res.kind = "None"

\* C7: however concurrent finds interleave, a PackId's index is loaded at most
\* once, and every caller that obtained an index for the PackId holds the one
\* published in its cell.
C7_LoadedOnceSameIndex ==
    \A q \in DOMAIN indexes :
        /\ Cardinality({p \in published : p.pack = q}) <= 1
        /\ \A t \in 1..MaxThreads :
              (th[t].packid = q /\ th[t].got # 0) =>
                  /\ indexes[q] = CellComplete(th[t].got)
                  /\ [pack |-> q, tok |-> th[t].got] \in published

C7_Witness ==
    /\ MaxThreads >= 2
    /\ th[1].pc = "done" /\ th[2].pc = "done"
    /\ th[1].packid = th[2].packid
    /\ th[1].got # 0 /\ th[1].got = th[2].got
    /\ th[1].res.kind = "Some"

-----------------------------------------------------------------------------
(* Claims about Index2 *)

\* The path looked up has a record in the index file
Present == \E i \in 1..Len(ixFile) : ixFile[i].hash = HASHER_checksum(ixFound.path)

\* C8: for every path present in an index, find returns
\* Some(InnerFilePtr) whose offset is a multiple of 128, whatever the location.
C8_OffsetMultipleOf128 ==
    (ixFound.path # <<>> /\ Present) =>
        /\ ixFound.res.kind = "Some"
        /\ ixFound.res.offset \cap (0..6) = {}

\* What the location decoding does establish: for every path present in an
\* index, find returns Some(InnerFilePtr) whose offset is a multiple of 64.
C8_OffsetMultipleOf64 ==
    (ixFound.path # <<>> /\ Present) =>
        /\ ixFound.res.kind = "Some"
        /\ ixFound.res.offset \cap (0..5) = {}

C8_Witness ==
    /\ ixFound.path = PathRoot /\ Len(ixFile) = 1
    /\ ixFile[1].location = {0, 3, 31}
    /\ ixFound.res.kind = "Some"
    /\ 6 \in ixFound.res.offset

-----------------------------------------------------------------------------
(* Claims about PackId *)

LowerHexChars ==
    {"0", "1", "2", "3", "4", "5", "6", "7", "8", "9", "a", "b", "c", "d", "e", "f"}

\* C9: for every PackId q, from_repo_path of the file name of q.into_index2_path()
\* and of q.into_dat_path(n), n in 0..9, returns q; the file-name stem is the
\* lowercase two-digit hex of category, expansion, patch in that order.
C9_RepoPathRoundTrip ==
    pidOut.op \in {"index2", "dat"} =>
        /\ pidOut.res = PackIdOk(pidIn.q)
        /\ Len(pidOut.path.file) > 7
        /\ pidOut.path.file[7] = "."
        /\ \A i \in 1..6 : pidOut.path.file[i] \in LowerHexChars
        /\ ParseHex2(SubSeq(pidOut.path.file, 1, 2)) = pidIn.q.category
        /\ ParseHex2(SubSeq(pidOut.path.file, 3, 4)) = pidIn.q.expansion
        /\ ParseHex2(SubSeq(pidOut.path.file, 5, 6)) = pidIn.q.patch

C9_Witness ==
    /\ pidOut.op = "dat" /\ pidOut.num = 9
    /\ pidIn.q = PackId_new(10, 9, 255)
    /\ pidOut.path = RepoPath(<<"e", "x", "9">>, <<"0", "a", "0", "9", "f", "f", ".", "w", "i", "n", "3", "2", ".", "d", "a", "t", "9">>)
    /\ pidOut.res = PackIdOk(PackId_new(10, 9, 255))

\* The path has fewer segments than from_inner_path inspects: a known category
\* alone, or a known category and an ex1..ex9 segment with nothing after it
ShortPath(path) ==
    LET nodes == Split(path) IN
    /\ CATEGORY_NAME_TO_ID(nodes[1]) # <<>>
    /\ \/ Len(nodes) = 1
       \/ Len(nodes) = 2 /\ EXPANSION_REGEX(nodes[2])

\* C10 (as stated): on such a path from_inner_path succeeds, the missing
\* expansion and/or patch being 0.
C10_ShortPathDefaultsToZero ==
    (pidOut.op = "inner" /\ ShortPath(pidIn.path)) =>
        /\ pidOut.res.ok
        /\ pidOut.res.id.patch = 0
        /\ Len(Split(pidIn.path)) = 1 => pidOut.res.id.expansion = 0

\* C10 (amended): on such a path from_inner_path fails with PackIdInnerPath;
\* expansion and patch are 0 when the second segment is present and is not
\* ex1..ex9.
C10_ShortPathFails ==
    pidOut.op = "inner" =>
        LET nodes == Split(pidIn.path) IN
        /\ ShortPath(pidIn.path) => pidOut.res = PackIdErr("PackIdInnerPath")
        /\ (/\ CATEGORY_NAME_TO_ID(nodes[1]) # <<>>
            /\ Len(nodes) >= 2
            /\ ~EXPANSION_REGEX(nodes[2]))
           => /\ pidOut.res.ok
              /\ pidOut.res.id.expansion = 0
              /\ pidOut.res.id.patch = 0

C10_Witness ==
    /\ pidOut.op = "inner"
    /\ pidIn.path = <<"c", "o", "m", "m", "o", "n", "/", "e", "x", "2">>
    /\ pidOut.res = PackIdErr("PackIdInnerPath")

\* The segments ex1 .. ex9
ExSegments == {<<"e", "x", DecDigits[d + 1]>> : d \in 1..9}

\* C11: from_inner_path fails when the first segment is no known category name;
\* a result has that category's id and, if the second segment is exactly
\* ex1..ex9, expansion = that digit and patch = the hex byte of the third
\* segment's two leading hex digits when '_' follows them (else 0); otherwise
\* expansion = 0 and patch = 0.  So expansion is in 0..9 and expansion = 0
\* implies patch = 0.
C11_InnerPathMapping ==
    pidOut.op = "inner" =>
        LET nodes == Split(pidIn.path)
            res == pidOut.res
        IN
        /\ CATEGORY_NAME_TO_ID(nodes[1]) = <<>> => ~res.ok
        /\ res.ok =>
              /\ <<res.id.category>> = CATEGORY_NAME_TO_ID(nodes[1])
              /\ IF nodes[2] \in ExSegments
                 THEN /\ res.id.expansion = DecVal(nodes[2][3])
                      /\ res.id.patch =
                            IF /\ Len(nodes[3]) >= 3
                               /\ nodes[3][1] \in LowerHexChars
                               /\ nodes[3][2] \in LowerHexChars
                               /\ nodes[3][3] = "_"
                            THEN 16 * HexVal(nodes[3][1]) + HexVal(nodes[3][2])
                            ELSE 0
                 ELSE res.id.expansion = 0 /\ res.id.patch = 0
              /\ res.id.expansion \in 0..9
              /\ res.id.expansion = 0 => res.id.patch = 0

C11_Witness ==
    /\ pidOut.op = "inner"
    /\ pidIn.path = <<"s", "o", "u", "n", "d", "/", "e", "x", "1", "/", "1", "f", "_", "x">>
    /\ pidOut.res = PackIdOk(PackId_new(7, 1, 31))

-----------------------------------------------------------------------------
(* Claims about the inner-file readers *)

\* C12: read_model on a Model file returns the decoded bytes of every chunk's
\* blocks, concatenated in chunk order; the call ends with a value or an error
\* value, never with a panic.
C12_ReadModelConcatenates ==
    datOut.op = "model" =>
        /\ datOut.kind \in {"Ok", "Err"}
        /\ datIn.file = "ok" =>
              /\ datOut.kind = "Ok"
              /\ datOut.data = <<[i \in 1..Len(datIn.headers) |-> i]>>

\* The payload length of the block a read_block call started at
PayloadLen ==
    read_size(datIn.headers[BlockAt(datIn, datOut.start)])

Boundary(n) == ((n + 127) \div 128) * 128

\* C18: read_block skips padding exactly when (16 + payload_len) % 128 # 0, up
\* to the next 128-byte boundary from the block start, and skips nothing when
\* 16 + payload_len is a multiple of 128; so in an Image chunk the header of
\* block j+1 is read at the first boundary at or after block j's payload end.
C18_PadsOnlyWhenUnaligned ==
    /\ (datOut.op = "block" /\ datOut.kind = "Ok") =>
          datOut.pos = datOut.start + Boundary(16 + PayloadLen)
    /\ datOut.op = "image" =>
          \A j \in 1..(Len(datOut.reads) - 1) :
             LET i == BlockAt(datIn, datOut.reads[j]) IN
             (i # 0 /\ i + 1 < ChunkFirst(datIn, Len(datIn.counts) + 1)
                    /\ \E c \in 1..Len(datIn.counts) :
                          /\ ChunkFirst(datIn, c) <= i
                          /\ i + 1 < ChunkFirst(datIn, c + 1))
             => datOut.reads[j + 1]
                   = datOut.reads[j] + Boundary(16 + read_size(datIn.headers[i]))

-----------------------------------------------------------------------------
(* Claims about the row binder *)

\* The cells a row provides: id, the sub-id if present, one per EXH column
CellsProvided ==
    1 + (IF rowIn.subid # NoSub THEN 1 ELSE 0) + Len(rowIn.columns)

C14_CellStream ==
    rowOut.op = "vec" =>
        /\ rowOut.kind = "Row"
        /\ rowOut.cells =
              <<Cell("u32", rowIn.id)>>
              \o (IF rowIn.subid # NoSub THEN <<Cell("u16", rowIn.subid)>> ELSE <<>>)
              \o [j \in 1..Len(rowIn.columns) |-> DecodeColumn(rowIn.columns[j], rowIn.byte)]

\* C19: a PackedBoolK cell (type tag 0x19 + K) is true exactly when bit K of
\* its byte is set.
C19_PackedBoolSingleBit ==
    (/\ rowOut.op = "vec" /\ rowOut.kind = "Row"
     /\ rowIn.subid = NoSub
     /\ Len(rowIn.columns) = 1 /\ rowIn.columns[1] \in 25..32)
    => rowOut.cells[2] = Cell("bool", Bit(rowIn.byte, rowIn.columns[1] - 25) = 1)

-----------------------------------------------------------------------------
(* Claims about the sub-row seek *)

\* C20: on a SubRows sheet sub-row k is read at row_offset + 6 +
\* (2 + data_stride) * k for every stride and k, with no wrap-around and no
\* panic; the sub-id is at that position and the cell base 2 bytes later.
C20_SubrowPositionExact ==
    subOut.kind # "pending" =>
        /\ subOut.kind = "Pos"
        /\ subOut.subid_at = subIn.offset + 6 + (2 + subIn.data_offset) * subIn.k
        /\ subOut.base = subOut.subid_at + 2

-----------------------------------------------------------------------------
(* Further claims about read_exd and Index2 *)

\* C15: if a page's EXD file is not found (every lookup before it having
\* answered), read_exd returns ExdNotFound naming
\* exd/<base>_<start_id><locale suffix>.exd and no iterator, whatever pages
\* before it were found; an iterator is returned only when every page's file
\* was found.
C15_MissingPageIsNotFound ==
    (rxOut.pc = "done" /\ rxIn.exh = "ok") =>
        /\ \A i \in 1..Len(rxOut.found) :
              (/\ rxOut.found[i] = "none"
               /\ \A j \in 1..(i - 1) : rxOut.found[j] = "some")
              => /\ rxOut.kind = "Err"
                 /\ rxOut.err = "ExdNotFound"
                 /\ rxOut.err_path =
                       <<"e", "x", "d", "/">> \o to_lowercase(rxIn.base_path) \o <<"_">>
                       \o FormatDec(rxIn.start_ids[i]) \o suffix(rxOut.exd_locale)
                       \o <<".", "e", "x", "d">>
        /\ rxOut.kind = "Iter" =>
              /\ \A i \in 1..Len(rxOut.found) : rxOut.found[i] = "some"
              /\ Len(rxOut.fileptrs) = Len(rxIn.start_ids)

C15_Witness ==
    /\ rxOut.pc = "done" /\ rxIn.exh = "ok"
    /\ rxOut.found = <<"some", "none">>
    /\ rxOut.kind = "Err" /\ rxOut.err = "ExdNotFound"
    /\ Len(rxOut.looked) = 2 /\ rxOut.err_path = rxOut.looked[2]

\* The last record of the file with the hash h
LastRecord(h) ==
    ixFile[CHOOSE i \in 1..Len(ixFile) :
              /\ ixFile[i].hash = h
              /\ \A j \in (i + 1)..Len(ixFile) : ixFile[j].hash # h]

\* C16: a location loc decodes to datnum = (loc & 0x7) >> 1, in 0..3, and to
\* offset = (loc with its low 3 bits cleared) * 8 with no bit lost to a 32-bit
\* result, so offsets up to 2^35 - 64 are kept apart.
C16_DecodeWithoutTruncation ==
    ixIndex # <<>> =>
        \A h \in DOMAIN ixIndex[1] :
           LET loc == LastRecord(h).location IN
           /\ ixIndex[1][h].datnum
                 = (IF 1 \in loc THEN 1 ELSE 0) + (IF 2 \in loc THEN 2 ELSE 0)
           /\ ixIndex[1][h].datnum \in 0..3
           /\ ixIndex[1][h].offset = {b + 3 : b \in loc \ {0, 1, 2}}

-----------------------------------------------------------------------------
(* Claims about the size hint *)

\* The rows a page reader still yields when drained by at most n calls of next()
RECURSIVE PageYield(_, _)
PageYield(rd, n) ==
    IF n = 0 THEN 0
    ELSE LET r == read_next_row(rd) IN
         IF r.res.kind = "Row" THEN 1 + PageYield(r.rd, n - 1) ELSE 0

\* The row pointers of the reader's page not yet fully yielded
PageRowsLeft(rd) == Len(pages[rd.page].rows) - rd.row_index

\* C21: at every point of iteration the size hint of the page reader being
\* drained has lower bound = the number of that page's row pointers not yet
\* fully yielded, upper bound the same for Normal and 65535 times it for
\* SubRows; computing it never underflows, and without read errors the lower
\* bound never exceeds the number of rows the reader still yields.
C21_SizeHintCountsPageRows ==
    frontiter.page # 0 =>
        LET h == size_hint(frontiter)
            left == PageRowsLeft(frontiter)
        IN
        /\ ~h.underflow
        /\ h.lo = left
        /\ h.hi = IF exh.variant = "Normal" THEN <<left>> ELSE <<left * U16_MAX>>
        /\ fault = NoFault => h.lo <= PageYield(frontiter, MaxRows * (MaxSub + 1) + 1)

\* The last page of a two-page sheet is being drained and its hint promises
\* more rows than the page has left
C21_Witness ==
    /\ Len(pages) = 2 /\ frontiter.page = 2 /\ fault = NoFault
    /\ ~size_hint(frontiter).underflow
    /\ size_hint(frontiter).lo > PageRowsLeft(frontiter)

-----------------------------------------------------------------------------
(* Claims about the lazy loading of the pages *)

\* The rows the pages before page p hold: one per pointer, or one per sub-row
RowsBefore(p) ==
    LET ptrs == AllPtrs(SubSeq(pages, 1, p - 1)) IN
    IF exh.variant = "Normal" THEN Len(ptrs) ELSE TotalSub(ptrs)

\* Page p's reader returned None: the FlatMap went past it
PageExhausted(p) == p < iter /\ frontiter.page # p

\* C22: read_exd itself reads no EXD file; each page's file is read and its
\* pointer table parsed at most once, by the first next() that reaches the
\* page and only after every row of all earlier pages was yielded; rows come
\* in EXH page order; an exhausted page's buffer and table are released.
C22_LazyOncePerPageInOrder ==
    /\ item.kind = "NotCalled" => \A p \in 1..Len(pages) : loads[p] = NoLoad
    /\ \A p \in 1..Len(pages) :
          /\ loads[p].reads <= 1 /\ loads[p].parses <= 1
          /\ loads[p].parses > 0 => loads[p].reads > 0
          /\ loads[p].reads > 0 => loads[p].at >= RowsBefore(p)
          /\ loads[p].held => frontiter.page = p
          /\ PageExhausted(p) => ~loads[p].held
    /\ \A i, j \in 1..Len(yielded) : i < j => yielded[i].id <= yielded[j].id

\* Every row header announces at least one row and all data can be read
AllRowsYield ==
    /\ fault = NoFault
    /\ \A i \in 1..Len(AllPtrs(pages)) : AllPtrs(pages)[i].subrow_count > 0

\* C22 (supporting fact): on sheets whose data can be read and whose rows all
\* announce at least one row, the pages are loaded lazily, once and in order.
C22_LazyWhenAllRowsYield == AllRowsYield => C22_LazyOncePerPageInOrder

\* The second page of a readable two-page sheet was loaded after the first
\* page's rows were yielded, and the first page's buffer is released
C22_Witness ==
    /\ AllRowsYield /\ Len(pages) = 2 /\ RowsBefore(2) > 0
    /\ loads[2].reads = 1 /\ loads[2].parses = 1 /\ loads[2].at >= RowsBefore(2)
    /\ loads[1].reads = 1 /\ ~loads[1].held /\ loads[2].held

-----------------------------------------------------------------------------
(* Claims about failed index loads *)

\* The error of a find whose Index2::load failed
LoadErrors == {"IO", "Index2Header"}

\* Thread t's load of its pack's index2 file fails in this step
LoadFails(t) == th[t].pc = "loading" /\ th'[t].pc = "done"

\* A slot is empty unless a load of its pack is running or has succeeded
SlotsFollowLoads ==
    \A q \in DOMAIN indexes :
        /\ indexes[q].state = "running" <=>
              \E t \in 1..MaxThreads : th[t].pc = "loading" /\ th[t].packid = q
        /\ indexes[q].state = "complete" <=> \E p \in published : p.pack = q
        /\ indexes[q].state \in {"incomplete", "running", "complete"}

\* A failed load gives its caller the error, empties the slot and touches no
\* other slot; a filled slot never changes
FailureNotKept ==
    /\ \A t \in 1..MaxThreads :
          LoadFails(t) =>
              /\ th'[t].res.kind = "Err" /\ th'[t].res.err \in LoadErrors
              /\ indexes'[th[t].packid] = CellIncomplete
              /\ \A q \in DOMAIN indexes : q # th[t].packid => indexes'[q] = indexes[q]
    /\ \A q \in DOMAIN indexes :
          indexes[q].state = "complete" => indexes'[q] = indexes[q]
    /\ \A t \in 1..MaxThreads, q \in DOMAIN indexes :
          (th'[t] # th[t] /\ th[t].packid # q /\ th'[t].packid # q)
              => indexes'[q] = indexes[q]

\* C23: when Index2::load fails during find the caller gets the error and the
\* pack's slot is empty again, so that a later find loads anew; a slot filled
\* once is never reloaded or replaced, and the slots of other packs are not
\* touched.
C23_FailedLoadNotMemoized == [](opened => SlotsFollowLoads) /\ [][FailureNotKept]_vars

\* A find failed to load a pack's index and a later find is loading it again
C23_Witness ==
    /\ th[1].pc = "done" /\ th[1].res.kind = "Err" /\ th[1].res.err \in LoadErrors
    /\ th[2].pc = "loading" /\ th[2].packid = th[1].packid

-----------------------------------------------------------------------------
(* Claims about the packs SqPack::open registers *)

\* C24: every PackId registered by SqPack::open has its index2 file at
\* base_dir/into_index2_path(packid), the directory its expansion designates,
\* so that forcing a registered slot never fails with file-not-found.
C24_RegisteredHasIndexFile ==
    opened =>
        /\ \A q \in DOMAIN indexes : into_index2_path(q) \in fs
        /\ \A t \in 1..MaxThreads :
              th[t].pc = "done" /\ th[t].packid \in DOMAIN indexes
                  => ~(th[t].res.kind = "Err" /\ th[t].res.err = "IO")

\* A pack was registered from a file lying in another expansion's directory
\* and the find that forced its slot failed to open the index2 file
C24_Witness ==
    /\ fs = {FileExdMisplaced} /\ opened
    /\ PackId_new(10, 0, 0) \in DOMAIN indexes
    /\ \E t \in 1..MaxThreads :
          /\ th[t].pc = "done" /\ th[t].packid = PackId_new(10, 0, 0)
          /\ th[t].res = FindErr("IO")

====
